---- MODULE Spec2Model ----
(***************************************************************************)
(* Coderr: a freelance-marketplace REST backend (Django REST Framework).   *)
(* The model keeps the relational store (users with their two role rows,   *)
(* offers, offer details, orders, reviews) and has one action per request  *)
(* handler.  A handler runs to completion in one step, except Review       *)
(* Create, whose validation and insert are two steps so that two requests  *)
(* can interleave between the duplicate pre-check and the insert.          *)
(***************************************************************************)
EXTENDS Integers, Sequences, FiniteSets, Bags, TLC

VARIABLES users, offers, details, orders, reviews, inflight, nextId, resp

vars == <<users, offers, details, orders, reviews, inflight, nextId, resp>>

(***************************************************************************)
(* Bounds of the model.                                                    *)
(***************************************************************************)
MaxOffers == 2
MaxOrders == 1
MaxReviews == 2
MaxInflight == 2

(***************************************************************************)
(* Users.  Anonymous is the unauthenticated caller.                        *)
(***************************************************************************)
Anonymous == 0
UserIds == {1, 2, 3}
Callers == UserIds \cup {Anonymous}

CUSTOMER == "customer"
BUSINESS == "business"

\* OfferDetail.OfferType
OfferTypes == {"basic", "standard", "premium"}
OfferTypeDefault == "standard"

\* Order.OrderStatus
IN_PROGRESS == "in_progress"
COMPLETED == "completed"
CANCELLED == "cancelled"
OrderStatuses == {IN_PROGRESS, COMPLETED, CANCELLED}

\* HTTP status codes of the responses
HTTP_200 == 200
HTTP_201 == 201
HTTP_204 == 204
HTTP_400 == 400
HTTP_401 == 401
HTTP_403 == 403
HTTP_404 == 404
HTTP_500 == 500

Has(rec, f) == f \in DOMAIN rec
Get(rec, f, default) == IF f \in DOMAIN rec THEN rec[f] ELSE default

NoBody == <<>>
Response(op, status, detail, body) ==
    [op |-> op, status |-> status, detail |-> detail, body |-> body]

(***************************************************************************)
(* Role gates.                                                             *)
(***************************************************************************)
is_authenticated(u) == u # Anonymous

\* IsBusinessUser.has_permission: request.user.profile.type == 'business'
IsBusinessUser(u) == is_authenticated(u) /\ users[u].profile_type = BUSINESS

\* IsCustomerUser.has_permission: request.user.userprofile.type == 'customer'
IsCustomerUser(u) == is_authenticated(u) /\ users[u].userprofile_type = CUSTOMER

\* DRF answers 401 to an unauthenticated caller and 403 to an authenticated one
Denied(u) == IF is_authenticated(u) THEN HTTP_403 ELSE HTTP_401

(***************************************************************************)
(* Identity and Profile.  A user row carries the registration's            *)
(* UserProfile.type, the Profile row's type and location, and the User     *)
(* row's is_staff and email; the other free-text Profile fields behave as  *)
(* location, first_name and last_name as email without its format check.   *)
(***************************************************************************)
\* the e-mail address user u registered with
EmailOf(u) == <<"user1@example.com", "user2@example.com", "user3@example.com">>[u]

\* EmailField validation: the addresses the payloads use that are well formed
ValidEmails == {EmailOf(u) : u \in UserIds}

\* Profile.type default
ProfileTypeDefault == CUSTOMER

\* the user rows RegistrationSerializer.create can leave: the User and the
\* UserProfile with the registered type, and the Profile row made when the User
\* is saved, whose type is the model's default or the registered type
RegisteredUser(u, type) ==
    {[userprofile_type |-> type, profile_type |-> p,
      is_staff |-> FALSE, email |-> EmailOf(u), location |-> ""] :
        p \in {ProfileTypeDefault, type}}

\* ProfileSerializer: the writable fields kept in the user row
ProfileWritableFields == {"type", "email", "location"}

\* ProfileSerializer: the fields required unless the update is partial
ProfileRequiredFields == {"email", "first_name", "last_name"}

\* error code of ProfileSerializer.is_valid, "" when valid
ProfileValidationError(data, partial) ==
    IF ~partial /\ ~(ProfileRequiredFields \subseteq DOMAIN data) THEN "field_required"
    ELSE IF Has(data, "type") /\ data.type \notin {CUSTOMER, BUSINESS} THEN "invalid_choice"
    ELSE IF Has(data, "email") /\ data.email \notin ValidEmails THEN "invalid_email"
    ELSE ""

\* ProfileSerializer.update: email goes to the User row, the rest to the Profile
profile_save(row, data) ==
    [f \in DOMAIN row |->
        IF f = "profile_type" /\ Has(data, "type") THEN data.type
        ELSE IF f \in {"email", "location"} /\ Has(data, f) THEN data[f]
        ELSE row[f]]

\* profile_app IsOwnerOrReadOnly for an unsafe method: the profile's own user
IsProfileOwner(u, target) == target = u

\* ProfileDetailView PATCH and PUT
ProfileUpdate(u, target, data, partial) ==
    /\ UNCHANGED <<offers, details, orders, reviews, inflight, nextId>>
    /\ IF ~is_authenticated(u)
       THEN /\ resp' = Response("profile_update", HTTP_401, "not_authenticated", NoBody)
            /\ UNCHANGED users
       ELSE IF target \notin UserIds
       THEN /\ resp' = Response("profile_update", HTTP_404, "not_found", NoBody)
            /\ UNCHANGED users
       ELSE IF ~IsProfileOwner(u, target)
       THEN /\ resp' = Response("profile_update", HTTP_403, "permission_denied", NoBody)
            /\ UNCHANGED users
       ELSE IF ProfileValidationError(data, partial) # ""
       THEN /\ resp' = Response("profile_update", HTTP_400,
                                ProfileValidationError(data, partial), NoBody)
            /\ UNCHANGED users
       ELSE /\ users' = [users EXCEPT ![target] = profile_save(@, data)]
            /\ resp' = Response("profile_update", HTTP_200, "", users'[target])

\* the row of a user id nobody has registered yet
Unregistered ==
    [userprofile_type |-> "", profile_type |-> "", is_staff |-> FALSE,
     email |-> "", location |-> ""]

Registered(u) == users[u] # Unregistered

\* User.objects.filter(email=data['email']).exists()
EmailExists(email) == \E v \in UserIds : Registered(v) /\ users[v].email = email

\* error code of RegistrationSerializer.is_valid, "" when valid: the username
\* (here the user id) is free, the passwords match, the email is not in use
RegistrationError(u, data) ==
    IF Registered(u) THEN "username_exists"
    ELSE IF data.password # data.repeated_password THEN "passwords_must_match"
    ELSE IF EmailExists(data.email) THEN "email_exists"
    ELSE ""

\* RegistrationView.post with RegistrationSerializer.create
Register(u, data) ==
    /\ UNCHANGED <<offers, details, orders, reviews, inflight, nextId>>
    /\ IF RegistrationError(u, data) # ""
       THEN /\ resp' = Response("registration", HTTP_400, RegistrationError(u, data), NoBody)
            /\ UNCHANGED users
       ELSE \E row \in RegisteredUser(u, data.type) :
               /\ users' = [users EXCEPT ![u] = [row EXCEPT !.email = data.email]]
               /\ resp' = Response("registration", HTTP_201, "",
                                   [user_id |-> u, email |-> data.email])

(***************************************************************************)
(* Offer Catalog: rows and aggregates.                                     *)
(***************************************************************************)
DetailsOf(ds, offerId) == {d \in ds : d.offer = offerId}

OfferIds == {o.id : o \in offers}
OfferById(id) == CHOOSE o \in offers : o.id = id

MaxOf(S) == CHOOSE x \in S : \A y \in S : x >= y
MinOf(S) == CHOOSE x \in S : \A y \in S : x <= y

\* Min('details__price') / Min('details__delivery_time_in_days'); NULL without details
NullAggregate == "null"
MinPrice(ds, offerId) ==
    IF DetailsOf(ds, offerId) = {} THEN NullAggregate
    ELSE MinOf({d.price : d \in DetailsOf(ds, offerId)})
MinDeliveryTime(ds, offerId) ==
    IF DetailsOf(ds, offerId) = {} THEN NullAggregate
    ELSE MinOf({d.delivery_time_in_days : d \in DetailsOf(ds, offerId)})

\* OfferViewSet.get_queryset: every offer annotated over its current details
AnnotatedOffer(os, ds, id) ==
    LET o == CHOOSE x \in os : x.id = id IN
    [id |-> o.id, user |-> o.user, title |-> o.title, description |-> o.description,
     details |-> {d.id : d \in DetailsOf(ds, id)},
     min_price |-> MinPrice(ds, id),
     min_delivery_time |-> MinDeliveryTime(ds, id)]

get_queryset(os, ds) == [id \in {o.id : o \in os} |-> AnnotatedOffer(os, ds, id)]

\* OfferResponseSerializer on an instance that carries no annotation (after create)
OfferResponse(os, ds, id) ==
    LET o == CHOOSE x \in os : x.id = id IN
    [id |-> o.id, user |-> o.user, title |-> o.title, description |-> o.description,
     details |-> {d.id : d \in DetailsOf(ds, id)}]

(***************************************************************************)
(* Offer Catalog: validation of the nested detail items.                   *)
(***************************************************************************)
RequiredDetailFields == {"title", "price", "delivery_time_in_days"}

\* OfferDetailCreateSerializer field validation; required fields are skipped
\* when the root serializer is partial
ValidDetailItem(item, partial) ==
    /\ partial \/ RequiredDetailFields \subseteq DOMAIN item
    /\ Has(item, "delivery_time_in_days") => item.delivery_time_in_days >= 0
    /\ Has(item, "revisions") => item.revisions >= -1
    /\ Has(item, "offer_type") => item.offer_type \in OfferTypes

\* revisions = IntegerField(required=False, default=0): filled in unless partial
ValidatedDetailItem(item, partial) ==
    IF ~partial /\ ~Has(item, "revisions") THEN item @@ [revisions |-> 0] ELSE item

ValidatedDetails(items, partial) ==
    [i \in 1..Len(items) |-> ValidatedDetailItem(items[i], partial)]

validate_details_at_most(value, isCreate) ==
    IF isCreate THEN Len(value) <= 3 ELSE TRUE

\* OfferCreateUpdateSerializer.validate_details
validate_details(value, isCreate) ==
    IF isCreate THEN Len(value) = 3 ELSE TRUE

\* error code of OfferCreateUpdateSerializer.is_valid, "" when valid
OfferValidationError(data, isCreate, partial) ==
    IF ~partial /\ ~Has(data, "title") THEN "title_required"
    ELSE IF ~partial /\ ~Has(data, "details") THEN "details_required"
    ELSE IF Has(data, "details")
            /\ \E i \in 1..Len(data.details) : ~ValidDetailItem(data.details[i], partial)
         THEN "details_invalid"
    ELSE IF Has(data, "details") /\ ~validate_details(data.details, isCreate)
         THEN "details_count"
    ELSE ""

(***************************************************************************)
(* Offer Create.                                                           *)
(***************************************************************************)
\* OfferDetail.objects.create(offer=offer, **detail_item) with the model defaults
NewOfferDetail(id, offerId, item) ==
    [id |-> id, offer |-> offerId,
     title |-> item.title,
     price |-> item.price,
     delivery_time_in_days |-> item.delivery_time_in_days,
     revisions |-> Get(item, "revisions", 0),
     features |-> Get(item, "features", <<>>),
     offer_type |-> Get(item, "offer_type", OfferTypeDefault)]

\* Offer.objects.create(user=request.user, **validated_data)
NewOffer(id, u, data) ==
    [id |-> id, user |-> u, title |-> data.title,
     description |-> Get(data, "description", "")]

\* The inserts of OfferCreateUpdateSerializer.create in order: insert 1 is the
\* Offer row, inserts 2.. are the details.  fault = 0: the store accepts every
\* insert; fault = k: the k-th insert raises and the rows before it were written.
NoFault == 0
InsertedOffers(id, u, data, fault) ==
    IF fault = 1 THEN {} ELSE {NewOffer(id, u, data)}
InsertedDetails(firstId, offerId, items, fault) ==
    {NewOfferDetail(firstId + i - 1, offerId, items[i]) :
        i \in {j \in 1..Len(items) : fault = NoFault \/ j + 1 < fault}}
InsertFailed(items, fault) == fault # NoFault /\ fault <= Len(items) + 1

transaction_not_atomic(before, written, failed) == before \cup written

\* with transaction.atomic(): the rows written inside the block are kept only
\* when the block ends without an exception
transaction_atomic(before, written, failed) ==
    IF failed THEN before ELSE before \cup written

\* OfferViewSet.create with OfferCreateUpdateSerializer.create
OfferCreate(u, data, fault) ==
    /\ nextId.offer <= MaxOffers
    /\ UNCHANGED <<users, orders, reviews, inflight>>
    /\ IF ~IsBusinessUser(u)
       THEN /\ resp' = Response("offer_create", Denied(u), "permission_denied", NoBody)
            /\ UNCHANGED <<offers, details, nextId>>
       ELSE IF OfferValidationError(data, TRUE, FALSE) # ""
       THEN /\ resp' = Response("offer_create", HTTP_400,
                                OfferValidationError(data, TRUE, FALSE), NoBody)
            /\ UNCHANGED <<offers, details, nextId>>
       ELSE LET items == ValidatedDetails(data.details, FALSE)
                id == nextId.offer
                failed == InsertFailed(items, fault)
                newOffers == transaction_atomic(offers,
                                 InsertedOffers(id, u, data, fault), failed)
                newDetails == transaction_atomic(details,
                                 InsertedDetails(nextId.detail, id, items, fault), failed)
            IN /\ offers' = newOffers
               /\ details' = newDetails
               /\ IF failed
                  THEN /\ resp' = Response("offer_create", HTTP_500, "insert_failed", NoBody)
                       /\ UNCHANGED nextId
                  ELSE /\ resp' = Response("offer_create", HTTP_201, "",
                                           OfferResponse(newOffers, newDetails, id))
                       /\ nextId' = [nextId EXCEPT !.offer = id + 1,
                                                   !.detail = @ + Len(items)]

(***************************************************************************)
(* Offer Update (PATCH when partial, PUT otherwise).                       *)
(***************************************************************************)
TypesOf(ds) == {d.offer_type : d \in ds}

\* {detail.offer_type: detail for detail in instance.details.all()}: the
\* details come in Meta.ordering = ['price'] and a later entry replaces an
\* earlier one of the same type, so a type maps to a detail of that type with
\* the highest price (the order among equal prices is the store's choice)
ExistingDetails(ds) ==
    {m \in [TypesOf(ds) -> {d.id : d \in ds}] :
        \A t \in TypesOf(ds) :
            \E d \in ds : /\ d.id = m[t]
                          /\ d.offer_type = t
                          /\ \A e \in ds : e.offer_type = t => e.price <= d.price}

\* OfferDetailCreateSerializer(instance, data, partial=True).save()
detail_save(old, item) ==
    [f \in DOMAIN old |-> IF f \in DOMAIN item THEN item[f] ELSE old[f]]

\* the loop over details_data in OfferCreateUpdateSerializer.update; it stops
\* at the first item that raises, with the earlier items already saved
RECURSIVE update_details(_, _, _)
update_details(ds, existing, items) ==
    IF items = <<>> THEN [details |-> ds, error |-> ""]
    ELSE LET item == Head(items) IN
         IF ~Has(item, "offer_type")
         THEN [details |-> ds, error |-> "offer_type_required"]
         ELSE IF item.offer_type \notin DOMAIN existing
         THEN [details |-> ds, error |-> "offer_type_not_found"]
         ELSE LET old == CHOOSE d \in ds : d.id = existing[item.offer_type]
              IN update_details((ds \ {old}) \cup {detail_save(old, item)},
                                existing, Tail(items))

\* instance.title = validated_data.get('title', instance.title) ...; instance.save()
offer_save(o, data) ==
    [o EXCEPT !.title = Get(data, "title", o.title),
              !.description = Get(data, "description", o.description)]

\* no request runs inside a transaction of its own: a row is committed when it
\* is saved, and only Offer Create wraps its inserts in one transaction
ATOMIC_REQUESTS == FALSE

OfferOwnerUnchecked(u, o) == TRUE

\* IsOwnerOrReadOnly.has_object_permission for an unsafe method
IsOfferOwner(u, o) == o.user = u

\* OfferViewSet.update with OfferCreateUpdateSerializer.update
OfferUpdate(u, id, data, partial) ==
    /\ UNCHANGED <<users, orders, reviews, inflight, nextId>>
    /\ IF ~is_authenticated(u)
       THEN /\ resp' = Response("offer_update", HTTP_401, "not_authenticated", NoBody)
            /\ UNCHANGED <<offers, details>>
       ELSE IF id \notin OfferIds
       THEN /\ resp' = Response("offer_update", HTTP_404, "not_found", NoBody)
            /\ UNCHANGED <<offers, details>>
       ELSE IF ~IsOfferOwner(u, OfferById(id))
       THEN /\ resp' = Response("offer_update", HTTP_403, "permission_denied", NoBody)
            /\ UNCHANGED <<offers, details>>
       ELSE IF OfferValidationError(data, FALSE, partial) # ""
       THEN /\ resp' = Response("offer_update", HTTP_400,
                                OfferValidationError(data, FALSE, partial), NoBody)
            /\ UNCHANGED <<offers, details>>
       ELSE \E existing \in ExistingDetails(DetailsOf(details, id)) :
            LET old == OfferById(id)
                items == IF Has(data, "details")
                         THEN ValidatedDetails(data.details, partial) ELSE <<>>
                r == update_details(details, existing, items)
                newOffers == (offers \ {old}) \cup {offer_save(old, data)}
                rolledBack == ATOMIC_REQUESTS /\ r.error # ""
            IN /\ offers' = IF rolledBack THEN offers ELSE newOffers
               /\ details' = IF rolledBack THEN details ELSE r.details
               /\ resp' = IF r.error # ""
                          THEN Response("offer_update", HTTP_400, r.error, NoBody)
                          ELSE Response("offer_update", HTTP_200, "",
                                        AnnotatedOffer(newOffers, r.details, id))

(***************************************************************************)
(* Offer Delete, List, Retrieve.                                           *)
(***************************************************************************)
no_cascade_offer_delete(ds, offerId) == ds

\* OfferDetail.offer: on_delete=models.CASCADE
cascade_offer_delete(ds, offerId) == {d \in ds : d.offer # offerId}

OfferDelete(u, id) ==
    /\ UNCHANGED <<users, orders, reviews, inflight, nextId>>
    /\ IF ~is_authenticated(u)
       THEN /\ resp' = Response("offer_delete", HTTP_401, "not_authenticated", NoBody)
            /\ UNCHANGED <<offers, details>>
       ELSE IF id \notin OfferIds
       THEN /\ resp' = Response("offer_delete", HTTP_404, "not_found", NoBody)
            /\ UNCHANGED <<offers, details>>
       ELSE IF ~IsOfferOwner(u, OfferById(id))
       THEN /\ resp' = Response("offer_delete", HTTP_403, "permission_denied", NoBody)
            /\ UNCHANGED <<offers, details>>
       ELSE /\ offers' = offers \ {OfferById(id)}
            /\ details' = cascade_offer_delete(details, id)
            /\ resp' = Response("offer_delete", HTTP_204, "", NoBody)

\* GET /offers/ : AllowAny
OfferList ==
    /\ resp' = Response("offer_list", HTTP_200, "", get_queryset(offers, details))
    /\ UNCHANGED <<users, offers, details, orders, reviews, inflight, nextId>>

OfferFilterStrict(os, ds, q) ==
    {o.id : o \in {x \in os :
        /\ Has(q, "min_price") => MinPrice(ds, x.id) > q.min_price
        /\ Has(q, "max_delivery_time") => MinDeliveryTime(ds, x.id) < q.max_delivery_time
        /\ Has(q, "creator_id") => x.user = q.creator_id}}

\* OfferFilter on the annotated queryset: min_price gte, min_delivery_time_days
\* lte, user__id exact; an offer without details has NULL annotations, which
\* no comparison accepts
OfferFilter(os, ds, q) ==
    {o.id : o \in {x \in os :
        /\ Has(q, "min_price") =>
              DetailsOf(ds, x.id) # {} /\ MinPrice(ds, x.id) >= q.min_price
        /\ Has(q, "max_delivery_time") =>
              DetailsOf(ds, x.id) # {} /\ MinDeliveryTime(ds, x.id) <= q.max_delivery_time
        /\ Has(q, "creator_id") => x.user = q.creator_id}}

\* OrderingFilter with ordering_fields min_price: the sequences of the rows in
\* the requested order; rows of equal min_price, and all rows when no ordering
\* is asked for, come in an order the store chooses
OrderedBy(rows, ordering) ==
    {s \in [1..Cardinality(rows) -> rows] :
        /\ \A i, j \in DOMAIN s : i # j => s[i] # s[j]
        /\ \A i, j \in DOMAIN s :
              i < j => CASE ordering = "min_price" -> s[i].min_price <= s[j].min_price
                         [] ordering = "-min_price" -> s[i].min_price >= s[j].min_price
                         [] OTHER -> TRUE}

\* GET /offers/?min_price=&max_delivery_time=&creator_id=&ordering= : AllowAny
OfferListFiltered(q) ==
    /\ UNCHANGED <<users, offers, details, orders, reviews, inflight, nextId>>
    /\ \E page \in OrderedBy({AnnotatedOffer(offers, details, id) :
                                 id \in OfferFilter(offers, details, q)},
                              Get(q, "ordering", "")) :
          resp' = Response("offer_list", HTTP_200, "filtered", page)

\* GET /offers/{id}/ : IsAuthenticated
OfferRetrieve(u, id) ==
    /\ UNCHANGED <<users, offers, details, orders, reviews, inflight, nextId>>
    /\ resp' = IF ~is_authenticated(u)
               THEN Response("offer_retrieve", HTTP_401, "not_authenticated", NoBody)
               ELSE IF id \notin OfferIds
               THEN Response("offer_retrieve", HTTP_404, "not_found", NoBody)
               ELSE Response("offer_retrieve", HTTP_200, "",
                             AnnotatedOffer(offers, details, id))

(***************************************************************************)
(* Order Ledger.                                                           *)
(***************************************************************************)
DetailIds == {d.id : d \in details}
DetailById(id) == CHOOSE d \in details : d.id = id
OrderIds == {o.id : o \in orders}
OrderById(id) == CHOOSE o \in orders : o.id = id

\* Order.revisions: default=3 when the field is not passed to create()
OrderRevisionsDefault == 3

NewOrderWithoutRevisions(id, u, businessUser, d) ==
    [id |-> id, customer_user |-> u, business_user |-> businessUser,
     title |-> d.title, price |-> d.price, revisions |-> OrderRevisionsDefault,
     delivery_time_in_days |-> d.delivery_time_in_days, features |-> d.features,
     offer_type |-> d.offer_type, status |-> IN_PROGRESS]

\* Order.objects.create(...) in OrderViewSet.create: the fields are copied from
\* the OfferDetail, status takes the model default
NewOrder(id, u, businessUser, d) ==
    [id |-> id, customer_user |-> u, business_user |-> businessUser,
     title |-> d.title, price |-> d.price, revisions |-> d.revisions,
     delivery_time_in_days |-> d.delivery_time_in_days, features |-> d.features,
     offer_type |-> d.offer_type, status |-> IN_PROGRESS]

OwnOfferUnchecked(u, businessUser) == FALSE

\* the guard "if business_user == request.user" of OrderViewSet.create
IsOwnOffer(u, businessUser) == businessUser = u

\* OrderViewSet.create
OrderCreate(u, data) ==
    /\ UNCHANGED <<users, offers, details, reviews, inflight>>
    /\ IF ~IsCustomerUser(u)
       THEN /\ resp' = Response("order_create", Denied(u), "permission_denied", NoBody)
            /\ UNCHANGED <<orders, nextId>>
       ELSE IF ~Has(data, "offer_detail_id")
       THEN /\ resp' = Response("order_create", HTTP_400, "offer_detail_id_required", NoBody)
            /\ UNCHANGED <<orders, nextId>>
       ELSE IF data.offer_detail_id \notin DetailIds
       THEN /\ resp' = Response("order_create", HTTP_404, "offer_detail_not_found", NoBody)
            /\ UNCHANGED <<orders, nextId>>
       ELSE LET d == DetailById(data.offer_detail_id)
                businessUser == OfferById(d.offer).user
            IN IF IsOwnOffer(u, businessUser)
               THEN /\ resp' = Response("order_create", HTTP_400, "own_offer", NoBody)
                    /\ UNCHANGED <<orders, nextId>>
               ELSE LET order == NewOrder(nextId.order, u, businessUser, d)
                    IN /\ nextId.order <= MaxOrders
                       /\ orders' = orders \cup {order}
                       /\ nextId' = [nextId EXCEPT !.order = @ + 1]
                       /\ resp' = Response("order_create", HTTP_201, "", order)

OrderStatusUpdateFieldsWithPrice == {"status", "price"}

\* OrderStatusUpdateSerializer.Meta.fields
OrderStatusUpdateFields == {"status"}

\* validated_data: the declared fields present in the payload
OrderValidatedData(data) ==
    [f \in DOMAIN data \cap OrderStatusUpdateFields |-> data[f]]

OrderExtraKeysIgnored(data, partial) ==
    IF Has(data, "status") /\ data.status \notin OrderStatuses THEN "invalid_choice"
    ELSE ""

\* error code of OrderStatusUpdateSerializer.is_valid, "" when valid: the field
\* validation (status a valid choice; the field is never required, for
\* Order.status has a default), then validate()
OrderValidationError(data, partial) ==
    IF Has(data, "status") /\ data.status \notin OrderStatuses THEN "invalid_choice"
    ELSE IF DOMAIN data \ OrderStatusUpdateFields # {} THEN "unrecognized_fields"
    ELSE ""

order_save_unless_closed(o, validated) ==
    [f \in DOMAIN o |->
        IF f \in DOMAIN validated /\ o.status = IN_PROGRESS THEN validated[f] ELSE o[f]]

\* ModelSerializer.update: setattr for each validated field, then save()
order_save(o, validated) ==
    [f \in DOMAIN o |-> IF f \in DOMAIN validated THEN validated[f] ELSE o[f]]

OrderQuerysetAllForStaff(u) ==
    IF is_authenticated(u)
    THEN {o \in orders : users[u].is_staff \/ o.customer_user = u \/ o.business_user = u}
    ELSE {}

\* OrderViewSet.get_queryset: the orders the caller takes part in
OrderQueryset(u) ==
    IF is_authenticated(u)
    THEN {o \in orders : o.customer_user = u \/ o.business_user = u}
    ELSE {}

OrderVisibleToParticipants(u, id) == id \in {o.id : o \in OrderQueryset(u)}

\* OrderViewSet.get_object: staff look in all orders, others in their queryset
OrderVisible(u, id) ==
    IF users[u].is_staff THEN id \in OrderIds
    ELSE id \in {o.id : o \in OrderQueryset(u)}

IsOrderOwnerOnly(u, o) == o.business_user = u

\* IsBusinessUserAndOwner.has_object_permission
IsBusinessUserAndOwner(u, o) ==
    users[u].profile_type = BUSINESS /\ o.business_user = u

\* OrderViewSet.partial_update (PATCH) and the inherited update (PUT)
OrderUpdateStatus(u, id, data, partial) ==
    /\ UNCHANGED <<users, offers, details, reviews, inflight, nextId>>
    /\ IF ~is_authenticated(u)
       THEN /\ resp' = Response("order_update", HTTP_401, "not_authenticated", NoBody)
            /\ UNCHANGED orders
       ELSE IF ~OrderVisible(u, id)
       THEN /\ resp' = Response("order_update", HTTP_404, "not_found", NoBody)
            /\ UNCHANGED orders
       ELSE IF ~IsBusinessUserAndOwner(u, OrderById(id))
       THEN /\ resp' = Response("order_update", HTTP_403, "permission_denied", NoBody)
            /\ UNCHANGED orders
       ELSE IF OrderValidationError(data, partial) # ""
       THEN /\ resp' = Response("order_update", HTTP_400,
                                OrderValidationError(data, partial), NoBody)
            /\ UNCHANGED orders
       ELSE LET old == OrderById(id)
                new == order_save(old, OrderValidatedData(data))
            IN /\ orders' = (orders \ {old}) \cup {new}
               /\ resp' = Response("order_update", HTTP_200, "", new)

\* OrderViewSet list: IsAuthenticated, then the serialized get_queryset
OrderList(u) ==
    /\ UNCHANGED <<users, offers, details, orders, reviews, inflight, nextId>>
    /\ IF ~is_authenticated(u)
       THEN resp' = Response("order_list", HTTP_401, "not_authenticated", NoBody)
       ELSE resp' = Response("order_list", HTTP_200, "", OrderQueryset(u))

\* OrderViewSet retrieve: IsAuthenticated, then get_object; the detail of the
\* answer names the queryset get_object searched
OrderRetrieve(u, id) ==
    /\ UNCHANGED <<users, offers, details, orders, reviews, inflight, nextId>>
    /\ IF ~is_authenticated(u)
       THEN resp' = Response("order_retrieve", HTTP_401, "not_authenticated", NoBody)
       ELSE IF ~OrderVisible(u, id)
       THEN resp' = Response("order_retrieve", HTTP_404, "not_found", NoBody)
       ELSE resp' = Response("order_retrieve", HTTP_200,
                             IF users[u].is_staff THEN "all_orders" ELSE "own_orders",
                             OrderById(id))

IsAuthenticatedOnly(u) == is_authenticated(u)

\* IsAdminUser.has_permission: request.user and request.user.is_staff
IsAdminUser(u) == is_authenticated(u) /\ users[u].is_staff

\* OrderViewSet destroy (the inherited DestroyModelMixin behind IsAdminUser)
OrderDelete(u, id) ==
    /\ UNCHANGED <<users, offers, details, reviews, inflight, nextId>>
    /\ IF ~IsAdminUser(u)
       THEN /\ resp' = Response("order_delete", Denied(u), "permission_denied", NoBody)
            /\ UNCHANGED orders
       ELSE IF ~OrderVisible(u, id)
       THEN /\ resp' = Response("order_delete", HTTP_404, "not_found", NoBody)
            /\ UNCHANGED orders
       ELSE /\ orders' = orders \ {OrderById(id)}
            /\ resp' = Response("order_delete", HTTP_204, "", NoBody)

(***************************************************************************)
(* Review Ledger.  A Review Create is two steps: the permission check and  *)
(* the serializer validation run first, the INSERT runs later; requests of *)
(* other callers may be served between the two.                            *)
(***************************************************************************)
ReviewIds == {r.id : r \in reviews}
ReviewById(id) == CHOOSE r \in reviews : r.id = id

\* Review.rating validators: MinValueValidator(1), MaxValueValidator(5)
MinRating == 1
MaxRating == 5
ValidRating(v) == v \in MinRating..MaxRating

\* Review.objects.filter(business_user=..., reviewer=...).exists()
ReviewExists(rs, businessUser, reviewer) ==
    \E r \in rs : r.business_user = businessUser /\ r.reviewer = reviewer

SelfReviewUnchecked(reviewer, businessUser) == FALSE

\* the guard "if business_user == reviewer" of ReviewCreateSerializer.validate
IsSelfReview(reviewer, businessUser) == businessUser = reviewer

\* error code of ReviewCreateSerializer.is_valid, "" when valid: the fields
\* (business_user an existing user, rating within its validators), then
\* validate()
ReviewValidationError(u, data) ==
    IF ~Has(data, "business_user") THEN "business_user_required"
    ELSE IF data.business_user \notin UserIds THEN "business_user_unknown"
    ELSE IF ~Has(data, "rating") THEN "rating_required"
    ELSE IF ~ValidRating(data.rating) THEN "rating_invalid"
    ELSE IF IsSelfReview(u, data.business_user) THEN "self_review"
    ELSE IF ReviewExists(reviews, data.business_user, u) THEN "already_reviewed"
    ELSE ""

\* the validated data a request carries from is_valid() to save()
ReviewRequest(u, data) ==
    [reviewer |-> u, business_user |-> data.business_user, rating |-> data.rating,
     description |-> Get(data, "description", "")]

\* ReviewViewSet.create up to serializer.is_valid(raise_exception=True)
ReviewCreateValidate(u, data) ==
    /\ UNCHANGED <<users, offers, details, orders, reviews, nextId>>
    /\ IF ~IsCustomerUser(u)
       THEN /\ resp' = Response("review_create", Denied(u), "permission_denied", NoBody)
            /\ UNCHANGED inflight
       ELSE IF ReviewValidationError(u, data) # ""
       THEN /\ resp' = Response("review_create", HTTP_400,
                                ReviewValidationError(u, data), NoBody)
            /\ UNCHANGED inflight
       ELSE /\ BagCardinality(inflight) < MaxInflight
            /\ inflight' = inflight (+) SetToBag({ReviewRequest(u, data)})
            /\ resp' = Response("review_validated", HTTP_200, "", NoBody)

UniqueTogetherUnchecked(rs, businessUser, reviewer) == FALSE

\* Review.Meta.unique_together = ('business_user', 'reviewer'): the INSERT of
\* a second row for the pair raises IntegrityError
UniqueTogetherViolated(rs, businessUser, reviewer) ==
    ReviewExists(rs, businessUser, reviewer)

\* ReviewViewSet.perform_create and the rest of create: serializer.save with
\* reviewer = request.user; an IntegrityError is not caught and ends as 500
ReviewCreateSave(q) ==
    /\ BagIn(q, inflight)
    /\ inflight' = inflight (-) SetToBag({q})
    /\ UNCHANGED <<users, offers, details, orders>>
    /\ IF UniqueTogetherViolated(reviews, q.business_user, q.reviewer)
       THEN /\ resp' = Response("review_create", HTTP_500, "integrity_error", NoBody)
            /\ UNCHANGED <<reviews, nextId>>
       ELSE LET review == [id |-> nextId.review, business_user |-> q.business_user,
                           reviewer |-> q.reviewer, rating |-> q.rating,
                           description |-> q.description]
            IN /\ nextId.review <= MaxReviews
               /\ reviews' = reviews \cup {review}
               /\ nextId' = [nextId EXCEPT !.review = @ + 1]
               /\ resp' = Response("review_create", HTTP_201, "", review)

\* ReviewUpdateSerializer.Meta.fields
ReviewUpdateFields == {"rating", "description"}

\* error code of ReviewUpdateSerializer.is_valid, "" when valid
ReviewUpdateError(data, partial) ==
    IF ~partial /\ ~Has(data, "rating") THEN "rating_required"
    ELSE IF Has(data, "rating") /\ ~ValidRating(data.rating) THEN "rating_invalid"
    ELSE ""

review_save_any_field(r, data) ==
    [f \in DOMAIN r |-> IF f \in DOMAIN data THEN data[f] ELSE r[f]]

\* ModelSerializer.update with the declared fields present in the payload
review_save(r, data) ==
    [f \in DOMAIN r |-> IF f \in DOMAIN data \cap ReviewUpdateFields THEN data[f] ELSE r[f]]

\* reviews_app IsOwnerOrReadOnly.has_object_permission for an unsafe method
IsReviewOwner(u, r) == r.reviewer = u

\* ReviewViewSet.update (PUT and PATCH)
ReviewUpdate(u, id, data, partial) ==
    /\ UNCHANGED <<users, offers, details, orders, inflight, nextId>>
    /\ IF id \notin ReviewIds
       THEN /\ resp' = Response("review_update", HTTP_404, "not_found", NoBody)
            /\ UNCHANGED reviews
       ELSE IF ~IsReviewOwner(u, ReviewById(id))
       THEN /\ resp' = Response("review_update", Denied(u), "permission_denied", NoBody)
            /\ UNCHANGED reviews
       ELSE IF ReviewUpdateError(data, partial) # ""
       THEN /\ resp' = Response("review_update", HTTP_400,
                                ReviewUpdateError(data, partial), NoBody)
            /\ UNCHANGED reviews
       ELSE LET old == ReviewById(id)
                new == review_save(old, data)
            IN /\ reviews' = (reviews \ {old}) \cup {new}
               /\ resp' = Response("review_update", HTTP_200, "", new)

\* ReviewViewSet.destroy (the inherited DestroyModelMixin)
ReviewDelete(u, id) ==
    /\ UNCHANGED <<users, offers, details, orders, inflight, nextId>>
    /\ IF id \notin ReviewIds
       THEN /\ resp' = Response("review_delete", HTTP_404, "not_found", NoBody)
            /\ UNCHANGED reviews
       ELSE IF ~IsReviewOwner(u, ReviewById(id))
       THEN /\ resp' = Response("review_delete", Denied(u), "permission_denied", NoBody)
            /\ UNCHANGED reviews
       ELSE /\ reviews' = reviews \ {ReviewById(id)}
            /\ resp' = Response("review_delete", HTTP_204, "", NoBody)

(***************************************************************************)
(* Platform Stats and the profile lists.  average_rating is kept in tenths *)
(* (45 stands for 4.5).                                                    *)
(***************************************************************************)
RECURSIVE SumOfRatings(_)
SumOfRatings(rs) ==
    IF rs = {} THEN 0
    ELSE LET r == CHOOSE x \in rs : TRUE IN r.rating + SumOfRatings(rs \ {r})

round_down(total, n) == (total * 10) \div n

\* round(avg_rating, 1): to the nearest tenth, a tie to the even tenth
round(total, n) ==
    LET q == (total * 10) \div n
        twice == 2 * ((total * 10) % n)
    IN IF twice < n THEN q
       ELSE IF twice > n THEN q + 1
       ELSE IF q % 2 = 0 THEN q ELSE q + 1

\* Review.objects.aggregate(average=Avg('rating')), rounded unless None
average_rating(rs) ==
    IF rs = {} THEN NullAggregate ELSE round(SumOfRatings(rs), Cardinality(rs))

\* UserProfile.objects.filter(type='business').count()
business_profile_count ==
    Cardinality({u \in UserIds : users[u].userprofile_type = BUSINESS})

\* BaseInfoView.get, behind AllowAny
BaseInfo ==
    /\ UNCHANGED <<users, offers, details, orders, reviews, inflight, nextId>>
    /\ resp' = Response("base_info", HTTP_200, "",
                        [review_count |-> Cardinality(reviews),
                         average_rating |-> average_rating(reviews),
                         business_profile_count |-> business_profile_count,
                         offer_count |-> Cardinality(offers)])

\* BusinessProfileListView.get_queryset: Profile rows with type business
BusinessProfiles == {u \in UserIds : users[u].profile_type = BUSINESS}

\* BusinessProfileListView, behind IsAuthenticated
BusinessProfileList(u) ==
    /\ UNCHANGED <<users, offers, details, orders, reviews, inflight, nextId>>
    /\ resp' = IF is_authenticated(u)
               THEN Response("business_profiles", HTTP_200, "", BusinessProfiles)
               ELSE Response("business_profiles", HTTP_401, "not_authenticated", NoBody)

(***************************************************************************)
(* Request payloads the model draws from.                                  *)
(***************************************************************************)
ItemBasic ==
    [title |-> "Basic", price |-> 10, delivery_time_in_days |-> 5, revisions |-> 1,
     features |-> <<"f1">>, offer_type |-> "basic"]
ItemStandard ==
    [title |-> "Standard", price |-> 20, delivery_time_in_days |-> 3,
     offer_type |-> "standard"]
ItemPremium ==
    [title |-> "Premium", price |-> 30, delivery_time_in_days |-> 1, revisions |-> -1,
     features |-> <<"f1", "f2">>, offer_type |-> "premium"]
\* a nested item without its required price
ItemNoPrice ==
    [title |-> "Basic", delivery_time_in_days |-> 5, offer_type |-> "basic"]

OfferCreateInputs ==
    {[title |-> "T1", details |-> ds] :
        ds \in {<<ItemBasic, ItemStandard, ItemPremium>>,
                <<ItemBasic, ItemBasic, ItemPremium>>,
                <<ItemBasic, ItemStandard>>,
                <<ItemBasic, ItemStandard, ItemPremium, ItemPremium>>,
                <<ItemBasic, ItemNoPrice, ItemPremium>>}}
    \cup {[details |-> <<ItemBasic, ItemStandard, ItemPremium>>]}

\* a create request and the insert the store refuses during it (NoFault: none;
\* 2: the first detail, after the Offer row; 4: the third detail)
OfferCreateRequests ==
    {<<data, NoFault>> : data \in OfferCreateInputs}
    \cup {<<[title |-> "T1", details |-> <<ItemBasic, ItemStandard, ItemPremium>>], f>> :
            f \in {2, 4}}

PatchPrice == [offer_type |-> "basic", price |-> 40]
PatchDays == [offer_type |-> "premium", delivery_time_in_days |-> 7]
PatchNoType == [price |-> 1]

OfferPatchInputs ==
    {[title |-> "T2", details |-> <<PatchPrice, PatchDays>>],
     [details |-> <<PatchNoType>>],
     [title |-> "T2", details |-> <<PatchPrice, PatchNoType>>]}

\* the basic item of the create payloads without its revisions
ItemBasicNoRevisions ==
    [title |-> "Basic", price |-> 10, delivery_time_in_days |-> 5,
     offer_type |-> "basic"]

OfferPutInputs ==
    {[title |-> "T2", details |-> <<ItemStandard>>],
     [title |-> "T2"]}

\* the ids of the stored offers and one id that names no offer
OfferIdInputs == OfferIds \cup {nextId.offer}

(***************************************************************************)
(* Initial state: an empty store with three registered users.  User 1      *)
(* registered as business and set the profile type to business, user 2     *)
(* registered as customer, user 3 registered as customer and set the       *)
(* profile type to business.                                               *)
(***************************************************************************)
Init ==
    /\ users = [u \in UserIds |->
                  [userprofile_type |-> IF u = 1 THEN BUSINESS ELSE CUSTOMER,
                   profile_type |-> IF u = 1 THEN BUSINESS ELSE CUSTOMER,
                   is_staff |-> FALSE,
                   email |-> EmailOf(u), location |-> ""]]
    /\ offers = {}
    /\ details = {}
    /\ orders = {}
    /\ reviews = {}
    /\ inflight = EmptyBag
    /\ nextId = [offer |-> 1, detail |-> 1, order |-> 1, review |-> 1]
    /\ resp = Response("", HTTP_200, "", NoBody)

OrderCreateInputs ==
    {[offer_detail_id |-> id] : id \in DetailIds \cup {nextId.detail}} \cup {<<>>}

OrderPatchInputs ==
    {[status |-> st] : st \in OrderStatuses}
    \cup {[status |-> COMPLETED, price |-> 1], [status |-> "done"], [price |-> 1]}

OrderPutInputs == {[status |-> CANCELLED], <<>>}

\* the ids of the stored orders and one id that names no order
OrderIdInputs == OrderIds \cup {nextId.order}

\* The order ledger is explored from the store in which user 1 is staff and
\* user 3, registered as customer, has set the profile type to business and has
\* created one offer.
FixtureOffer == [title |-> "T1", details |-> <<ItemBasic, ItemStandard, ItemPremium>>]
InitOrders ==
    /\ users = [u \in UserIds |->
                  [userprofile_type |-> IF u = 1 THEN BUSINESS ELSE CUSTOMER,
                   profile_type |-> IF u = 2 THEN CUSTOMER ELSE BUSINESS,
                   is_staff |-> (u = 1),
                   email |-> EmailOf(u), location |-> ""]]
    /\ offers = InsertedOffers(1, 3, FixtureOffer, NoFault)
    /\ details = InsertedDetails(1, 1, ValidatedDetails(FixtureOffer.details, FALSE), NoFault)
    /\ orders = {}
    /\ reviews = {}
    /\ inflight = EmptyBag
    /\ nextId = [offer |-> 2, detail |-> 4, order |-> 1, review |-> 1]
    /\ resp = Response("", HTTP_200, "", NoBody)

\* a profile update that only sets the type
RolePatchInputs == {[type |-> BUSINESS], [type |-> CUSTOMER]}

NextOrders ==
    \/ \E u \in Callers, data \in OrderCreateInputs : OrderCreate(u, data)
    \/ \E u \in Callers, id \in OrderIdInputs, data \in OrderPatchInputs :
           OrderUpdateStatus(u, id, data, TRUE)
    \/ \E u \in Callers, id \in OrderIdInputs, data \in OrderPutInputs :
           OrderUpdateStatus(u, id, data, FALSE)
    \/ \E u \in Callers, id \in OrderIdInputs : OrderDelete(u, id)
    \/ \E u \in Callers, id \in OfferIdInputs, data \in OfferPatchInputs :
           OfferUpdate(u, id, data, TRUE)
    \/ \E u \in Callers, id \in OfferIdInputs : OfferDelete(u, id)

SpecOrders == InitOrders /\ [][NextOrders]_vars

\* Status updates are explored with users who change the type of their profile
\* between the requests; orders are taken on the first detail.
NextStatus ==
    \/ \E u \in UserIds, data \in RolePatchInputs : ProfileUpdate(u, u, data, TRUE)
    \/ \E u \in Callers : OrderCreate(u, [offer_detail_id |-> 1])
    \/ \E u \in Callers, id \in OrderIdInputs, data \in OrderPatchInputs :
           OrderUpdateStatus(u, id, data, TRUE)
    \/ \E u \in Callers, id \in OrderIdInputs, data \in OrderPutInputs :
           OrderUpdateStatus(u, id, data, FALSE)

SpecStatus == InitOrders /\ [][NextStatus]_vars

\* Visibility of orders is explored from the store in which user 1 owns one
\* offer and the customer user 3 is staff.
InitVisibility ==
    /\ users = [u \in UserIds |->
                  [userprofile_type |-> IF u = 1 THEN BUSINESS ELSE CUSTOMER,
                   profile_type |-> IF u = 1 THEN BUSINESS ELSE CUSTOMER,
                   is_staff |-> (u = 3),
                   email |-> EmailOf(u), location |-> ""]]
    /\ offers = InsertedOffers(1, 1, FixtureOffer, NoFault)
    /\ details = InsertedDetails(1, 1, ValidatedDetails(FixtureOffer.details, FALSE), NoFault)
    /\ orders = {}
    /\ reviews = {}
    /\ inflight = EmptyBag
    /\ nextId = [offer |-> 2, detail |-> 4, order |-> 1, review |-> 1]
    /\ resp = Response("", HTTP_200, "", NoBody)

NextVisibility ==
    \/ \E u \in Callers, data \in OrderCreateInputs : OrderCreate(u, data)
    \/ \E u \in Callers : OrderList(u)
    \/ \E u \in Callers, id \in OrderIdInputs : OrderRetrieve(u, id)
    \/ \E u \in Callers, id \in OrderIdInputs :
           OrderUpdateStatus(u, id, [status |-> COMPLETED], TRUE)
    \/ \E u \in Callers, id \in OrderIdInputs : OrderDelete(u, id)

SpecVisibility == InitVisibility /\ [][NextVisibility]_vars

\* a user id that names no user
UnknownUser == 9

ReviewCreateInputs ==
    {[business_user |-> b, rating |-> 3] : b \in {1, 2, UnknownUser}}
    \cup {[business_user |-> 1, rating |-> 6], [business_user |-> 1], [rating |-> 3]}

ReviewPatchInputs == {[rating |-> 5], [rating |-> 0]}

ReviewPutInputs == {[rating |-> 5], [description |-> "d2"]}

\* the ids of the stored reviews and one id that names no review
ReviewIdInputs == ReviewIds \cup {nextId.review}

NextReviews ==
    \/ \E u \in Callers, data \in ReviewCreateInputs : ReviewCreateValidate(u, data)
    \/ \E q \in BagToSet(inflight) : ReviewCreateSave(q)
    \/ \E u \in Callers, id \in ReviewIdInputs, data \in ReviewPatchInputs :
           ReviewUpdate(u, id, data, TRUE)
    \/ \E u \in Callers, id \in ReviewIdInputs, data \in ReviewPutInputs :
           ReviewUpdate(u, id, data, FALSE)
    \/ \E u \in Callers, id \in ReviewIdInputs : ReviewDelete(u, id)

SpecReviews == Init /\ [][NextReviews]_vars

\* Review Update is explored with payloads that also carry the fields the
\* update serializer does not declare, next to creates of valid and invalid
\* ratings.
EditCreateInputs == {[business_user |-> 1, rating |-> r] : r \in {3, 6}}

EditPatchInputs ==
    {[business_user |-> 3, rating |-> 1],
     [reviewer |-> 3, description |-> "d2"],
     [rating |-> 6],
     [rating |-> 0]}

EditPutInputs == {[rating |-> 5, reviewer |-> 1], [description |-> "d2"]}

NextEdits ==
    \/ \E u \in Callers, data \in EditCreateInputs : ReviewCreateValidate(u, data)
    \/ \E q \in BagToSet(inflight) : ReviewCreateSave(q)
    \/ \E u \in Callers, id \in ReviewIdInputs, data \in EditPatchInputs :
           ReviewUpdate(u, id, data, TRUE)
    \/ \E u \in Callers, id \in ReviewIdInputs, data \in EditPutInputs :
           ReviewUpdate(u, id, data, FALSE)

SpecEdits == Init /\ [][NextEdits]_vars

\* Platform Stats is explored from the store in which user 1 registered as
\* business, users 2 and 3 as customer, and three reviews of rating 5 are
\* stored, by requests that create and delete offers and that change and
\* delete reviews.
StatsReviews ==
    {[id |-> 1, business_user |-> 1, reviewer |-> 2, rating |-> 5, description |-> ""],
     [id |-> 2, business_user |-> 1, reviewer |-> 3, rating |-> 5, description |-> ""],
     [id |-> 3, business_user |-> 3, reviewer |-> 2, rating |-> 5, description |-> ""]}

StatsRatingInputs == {[rating |-> r] : r \in {4, 5}}

InitStats ==
    /\ users = [u \in UserIds |->
                  [userprofile_type |-> IF u = 1 THEN BUSINESS ELSE CUSTOMER,
                   profile_type |-> IF u = 1 THEN BUSINESS ELSE CUSTOMER,
                   is_staff |-> FALSE,
                   email |-> EmailOf(u), location |-> ""]]
    /\ offers = {}
    /\ details = {}
    /\ orders = {}
    /\ reviews = StatsReviews
    /\ inflight = EmptyBag
    /\ nextId = [offer |-> 1, detail |-> 1, order |-> 1, review |-> 4]
    /\ resp = Response("", HTTP_200, "", NoBody)

NextStats ==
    \/ BaseInfo
    \/ \E u \in UserIds : OfferCreate(u, FixtureOffer, NoFault)
    \/ \E u \in UserIds, id \in OfferIds : OfferDelete(u, id)
    \/ \E u \in UserIds, id \in ReviewIds, data \in StatsRatingInputs :
           ReviewUpdate(u, id, data, TRUE)
    \/ \E u \in UserIds, id \in ReviewIds : ReviewDelete(u, id)

SpecStats == InitStats /\ [][NextStats]_vars

\* The two counts of business profiles are explored from the same store by
\* profile updates and the two read requests.
CountsPatchInputs == RolePatchInputs \cup {[location |-> "Berlin"]}

NextCounts ==
    \/ BaseInfo
    \/ \E u \in Callers : BusinessProfileList(u)
    \/ \E u \in UserIds, data \in CountsPatchInputs : ProfileUpdate(u, u, data, TRUE)

SpecCounts == InitStats /\ [][NextCounts]_vars

\* Email addresses are explored from the store nobody has registered in, by
\* registrations and by profile updates of registered users that carry an email.
RegistrationInputs ==
    {[email |-> e, type |-> t, password |-> "pw", repeated_password |-> r] :
        e \in {EmailOf(1), EmailOf(2)}, t \in {CUSTOMER, BUSINESS}, r \in {"pw"}}
    \cup {[email |-> EmailOf(3), type |-> CUSTOMER,
            password |-> "pw", repeated_password |-> "pw2"]}

EmailPatchInputs == {[email |-> EmailOf(u)] : u \in {1, 2}} \cup {[email |-> "no-address"]}

InitEmails ==
    /\ users = [u \in UserIds |-> Unregistered]
    /\ offers = {}
    /\ details = {}
    /\ orders = {}
    /\ reviews = {}
    /\ inflight = EmptyBag
    /\ nextId = [offer |-> 1, detail |-> 1, order |-> 1, review |-> 1]
    /\ resp = Response("", HTTP_200, "", NoBody)

NextEmails ==
    \/ \E u \in UserIds, data \in RegistrationInputs : Register(u, data)
    \/ \E u \in UserIds, target \in UserIds, data \in EmailPatchInputs :
           Registered(u) /\ Registered(target) /\ ProfileUpdate(u, target, data, TRUE)

SpecEmails == InitEmails /\ [][NextEmails]_vars

NextOffers ==
    \/ \E u \in Callers, req \in OfferCreateRequests :
           OfferCreate(u, req[1], req[2])
    \/ \E u \in Callers, id \in OfferIdInputs, data \in OfferPatchInputs :
           OfferUpdate(u, id, data, TRUE)
    \/ \E u \in Callers, id \in OfferIdInputs, data \in OfferPutInputs :
           OfferUpdate(u, id, data, FALSE)
    \/ \E u \in Callers, id \in OfferIdInputs : OfferDelete(u, id)
    \/ OfferList
    \/ \E u \in Callers, id \in OfferIdInputs : OfferRetrieve(u, id)

SpecOffers == Init /\ [][NextOffers]_vars

\* Offer Update is explored from the store in which user 1 owns offer 1 with
\* one detail per type and user 3 owns offer 2 with two basic details and
\* no standard one (Offer Create accepts that payload).
PatchStandard == [offer_type |-> "standard", revisions |-> 2]

UpdatePatchInputs ==
    OfferPatchInputs \cup {[description |-> "D2", details |-> <<PatchStandard>>]}

UpdatePutInputs ==
    OfferPutInputs \cup {[title |-> "T1", details |-> <<ItemBasicNoRevisions>>]}

TwoBasicOffer == [title |-> "T1", details |-> <<ItemBasic, ItemBasic, ItemPremium>>]

InitUpdates ==
    /\ users = [u \in UserIds |->
                  [userprofile_type |-> IF u = 1 THEN BUSINESS ELSE CUSTOMER,
                   profile_type |-> IF u = 2 THEN CUSTOMER ELSE BUSINESS,
                   is_staff |-> FALSE,
                   email |-> EmailOf(u), location |-> ""]]
    /\ offers = InsertedOffers(1, 1, FixtureOffer, NoFault)
                   \cup InsertedOffers(2, 3, TwoBasicOffer, NoFault)
    /\ details = InsertedDetails(1, 1, ValidatedDetails(FixtureOffer.details, FALSE), NoFault)
                   \cup InsertedDetails(4, 2, ValidatedDetails(TwoBasicOffer.details, FALSE), NoFault)
    /\ orders = {}
    /\ reviews = {}
    /\ inflight = EmptyBag
    /\ nextId = [offer |-> 3, detail |-> 7, order |-> 1, review |-> 1]
    /\ resp = Response("", HTTP_200, "", NoBody)

NextUpdates ==
    \/ \E u \in Callers, id \in OfferIdInputs, data \in UpdatePatchInputs :
           OfferUpdate(u, id, data, TRUE)
    \/ \E u \in Callers, id \in OfferIdInputs, data \in UpdatePutInputs :
           OfferUpdate(u, id, data, FALSE)

SpecUpdates == InitUpdates /\ [][NextUpdates]_vars

\* The filters of Offer List are explored from the same two offers, whose
\* prices and delivery times patches move across the filter values.
FilterPatchInputs == {[details |-> <<PatchPrice>>], [details |-> <<PatchDays>>]}

FilterInputs ==
    {[min_price |-> 20], [max_delivery_time |-> 3], [creator_id |-> 3],
     [ordering |-> "min_price"], [ordering |-> "-min_price"],
     [min_price |-> 10, max_delivery_time |-> 1, ordering |-> "min_price"]}

NextFilters ==
    \/ \E u \in UserIds, id \in OfferIds, data \in FilterPatchInputs :
           OfferUpdate(u, id, data, TRUE)
    \/ \E q \in FilterInputs : OfferListFiltered(q)

SpecFilters == InitUpdates /\ [][NextFilters]_vars

\* The role gates are explored from the store right after three registrations,
\* each with either type, by requests that create and by profile updates.
ProfilePatchInputs ==
    {[type |-> BUSINESS], [type |-> CUSTOMER], [type |-> "admin"],
     [location |-> "Berlin"], [email |-> "no-address"]}

ProfilePutInputs ==
    {[email |-> EmailOf(1), first_name |-> "A", last_name |-> "B", location |-> "Berlin"],
     [location |-> "Berlin"]}

ProfileIdInputs == UserIds \cup {UnknownUser}

InitRoles ==
    /\ \E t \in {[u \in UserIds |-> IF u = 1 THEN BUSINESS ELSE CUSTOMER],
                  [u \in UserIds |-> IF u = 2 THEN CUSTOMER ELSE BUSINESS]} :
          users \in {row \in [UserIds -> UNION {RegisteredUser(u, t[u]) : u \in UserIds}] :
                        \A u \in UserIds : row[u] \in RegisteredUser(u, t[u])}
    /\ offers = {}
    /\ details = {}
    /\ orders = {}
    /\ reviews = {}
    /\ inflight = EmptyBag
    /\ nextId = [offer |-> 1, detail |-> 1, order |-> 1, review |-> 1]
    /\ resp = Response("", HTTP_200, "", NoBody)

\* one offer, orders on its first detail and reviews of user 1 suffice here
NextRoles ==
    \/ \E u \in UserIds, data \in RolePatchInputs : ProfileUpdate(u, u, data, TRUE)
    \/ \E u \in Callers : offers = {} /\ OfferCreate(u, FixtureOffer, NoFault)
    \/ \E u \in Callers : OrderCreate(u, [offer_detail_id |-> 1])
    \/ \E u \in Callers : ReviewCreateValidate(u, [business_user |-> 1, rating |-> 3])
    \/ \E q \in BagToSet(inflight) : ReviewCreateSave(q)

SpecRoles == InitRoles /\ [][NextRoles]_vars

NextProfiles ==
    \/ \E u \in Callers, id \in ProfileIdInputs, data \in ProfilePatchInputs :
           ProfileUpdate(u, id, data, TRUE)
    \/ \E u \in Callers, id \in ProfileIdInputs, data \in ProfilePutInputs :
           ProfileUpdate(u, id, data, FALSE)

\* Ownership is explored from the store in which user 1 owns one offer and
\* user 2 has reviewed user 1.
FixtureReview ==
    [id |-> 1, business_user |-> 1, reviewer |-> 2, rating |-> 3, description |-> ""]

InitOwners ==
    /\ users = [u \in UserIds |->
                  [userprofile_type |-> IF u = 1 THEN BUSINESS ELSE CUSTOMER,
                   profile_type |-> IF u = 1 THEN BUSINESS ELSE CUSTOMER,
                   is_staff |-> FALSE,
                   email |-> EmailOf(u), location |-> ""]]
    /\ offers = InsertedOffers(1, 1, FixtureOffer, NoFault)
    /\ details = InsertedDetails(1, 1, ValidatedDetails(FixtureOffer.details, FALSE), NoFault)
    /\ orders = {}
    /\ reviews = {FixtureReview}
    /\ inflight = EmptyBag
    /\ nextId = [offer |-> 2, detail |-> 4, order |-> 1, review |-> 2]
    /\ resp = Response("", HTTP_200, "", NoBody)

\* a profile update of one field, and one that is not valid
OwnerPatchInputs == {[location |-> "Berlin"], [type |-> "admin"]}

NextOwners ==
    \/ \E u \in Callers, id \in OfferIdInputs, data \in OfferPatchInputs :
           OfferUpdate(u, id, data, TRUE)
    \/ \E u \in Callers, id \in OfferIdInputs : OfferDelete(u, id)
    \/ \E u \in Callers, id \in ReviewIdInputs, data \in ReviewPatchInputs :
           ReviewUpdate(u, id, data, TRUE)
    \/ \E u \in Callers, id \in ReviewIdInputs : ReviewDelete(u, id)
    \/ \E u \in Callers, id \in ProfileIdInputs, data \in OwnerPatchInputs :
           ProfileUpdate(u, id, data, TRUE)

SpecOwners == InitOwners /\ [][NextOwners]_vars

NextOrderReads ==
    \/ \E u \in Callers : OrderList(u)
    \/ \E u \in Callers, id \in OrderIdInputs : OrderRetrieve(u, id)

Next == NextOffers \/ NextOrders \/ NextOrderReads \/ NextReviews \/ NextProfiles

Spec == Init /\ [][Next]_vars

(***************************************************************************)
(* Offer Catalog: properties.                                              *)
(***************************************************************************)

\* C1: in every state reached through Offer Create, Update and Delete requests,
\* every stored Offer has exactly 3 OfferDetail rows and every stored
\* OfferDetail belongs to a stored Offer.
C1_ThreeDetailsPerOffer ==
    /\ \A o \in offers : Cardinality(DetailsOf(details, o.id)) = 3
    /\ \A d \in details : d.offer \in OfferIds

\* C1 witness: an offer was deleted while another offer, whose details an
\* update has changed, is still stored.
C1_Witness ==
    /\ resp.op = "offer_delete" /\ resp.status = HTTP_204
    /\ \E o \in offers : \E d \in DetailsOf(details, o.id) : d.price = PatchPrice.price

\* C2: Offer Create is atomic: a create step either stores nothing, or stores
\* exactly one new Offer together with exactly 3 new details of that offer and
\* answers 201; when an insert fails partway (500) nothing is stored.
C2_CreateIsAtomic ==
    [][resp'.op = "offer_create" =>
          \/ /\ offers' = offers
             /\ details' = details
             /\ resp'.status # HTTP_201
          \/ /\ resp'.status = HTTP_201
             /\ offers \subseteq offers' /\ details \subseteq details'
             /\ Cardinality(offers' \ offers) = 1
             /\ Cardinality(details' \ details) = 3
             /\ \A d \in details' \ details : \A o \in offers' \ offers : d.offer = o.id]_vars

\* C2 witness: a create whose insert failed partway has been answered.
C2_Witness ==
    /\ resp.op = "offer_create" /\ resp.status = HTTP_500
    /\ resp.detail = "insert_failed"

\* what section 4.1 of the specification calls a valid OfferDetail payload
SpecValidDetail(item) ==
    /\ {"title", "price", "delivery_time_in_days", "offer_type"} \subseteq DOMAIN item
    /\ item.price >= 0
    /\ item.delivery_time_in_days >= 0
    /\ item.offer_type \in OfferTypes
    /\ Has(item, "revisions") => item.revisions >= -1

C4_OneDetailPerType ==
    \A o \in offers : \A t \in OfferTypes :
        Cardinality({d \in DetailsOf(details, o.id) : d.offer_type = t}) = 1

IsMinOver(v, S) == v \in S /\ \A x \in S : v <= x

RowIsCurrent(row) ==
    /\ row.id \in OfferIds
    /\ IsMinOver(row.min_price, {d.price : d \in DetailsOf(details, row.id)})
    /\ IsMinOver(row.min_delivery_time,
                 {d.delivery_time_in_days : d \in DetailsOf(details, row.id)})

\* C5: for every Offer returned by List or Retrieve, min_price is the minimum
\* price and min_delivery_time the minimum delivery_time_in_days over the
\* offer's details as stored at the time of the query, also after updates.
C5_MinIsCurrent ==
    /\ (resp.op = "offer_list" /\ resp.status = HTTP_200) =>
          /\ DOMAIN resp.body = OfferIds
          /\ \A id \in DOMAIN resp.body : RowIsCurrent(resp.body[id])
    /\ (resp.op = "offer_retrieve" /\ resp.status = HTTP_200) =>
          RowIsCurrent(resp.body)

\* C5 witness: a Retrieve after an update that raised the cheapest detail's
\* price and the fastest detail's delivery time reports the new minima.
C5_Witness ==
    /\ resp.op = "offer_retrieve" /\ resp.status = HTTP_200
    /\ resp.body.min_price = ItemStandard.price
    /\ resp.body.min_delivery_time = ItemStandard.delivery_time_in_days

(***************************************************************************)
(* Order Ledger claims                                                     *)
(***************************************************************************)

\* the fields of an order that are copied from the offer detail at creation
OrderCopiedFields ==
    {"title", "price", "revisions", "delivery_time_in_days", "features", "offer_type"}

OrderFrozenFields == {"customer_user", "business_user"} \cup OrderCopiedFields

\* C7: a stored order keeps its customer_user, business_user, title, price,
\* revisions, delivery_time_in_days, features and offer_type through every
\* step (Offer Update, Offer Delete, Order UpdateStatus, Order Create, Order
\* Delete), and stays stored through every step other than an Order Delete, the
\* deletion of its source offer included; only status may change.
C7_OrderSnapshotFrozen ==
    [][\A o \in orders :
          /\ resp'.op # "order_delete" => o.id \in {o2.id : o2 \in orders'}
          /\ \A o2 \in orders' :
                o2.id = o.id => \A f \in OrderFrozenFields : o2[f] = o[f]]_vars

\* an order taken at the original basic price is stored and completed while
\* the offer it came from has been deleted
C7_Witness ==
    /\ offers = {} /\ details = {}
    /\ \E o \in orders :
          /\ o.status = COMPLETED
          /\ o.offer_type = "basic" /\ o.price = ItemBasic.price

\* C8: no stored order has customer_user = business_user; an Order Create whose
\* caller owns the offer of the named detail stores nothing and is rejected,
\* with a validation error (400) once the caller has passed the customer gate.
C8_NoSelfOrder ==
    /\ [](\A o \in orders : o.customer_user # o.business_user)
    /\ [][\A u \in Callers, data \in OrderCreateInputs :
            (/\ resp'.op = "order_create"
             /\ Has(data, "offer_detail_id")
             /\ data.offer_detail_id \in DetailIds
             /\ OfferById(DetailById(data.offer_detail_id).offer).user = u
             /\ OrderCreate(u, data)) =>
               /\ orders' = orders
               /\ resp'.status \in {HTTP_400, HTTP_401, HTTP_403}
               /\ IsCustomerUser(u) => resp'.status = HTTP_400]_vars

\* the owner of the offer, who passes the customer gate, was refused with 400
\* while another customer's order on the same offer is stored
C8_Witness ==
    /\ resp.op = "order_create" /\ resp.status = HTTP_400 /\ resp.detail = "own_offer"
    /\ orders # {}

(***************************************************************************)
(* Review Ledger claims                                                    *)
(***************************************************************************)

\* the statuses with which a refused request ends
Refusals == {HTTP_400, HTTP_401, HTTP_403, HTTP_500}

\* the stored reviews of the pair (business_user, reviewer)
ReviewsOfPair(rs, businessUser, reviewer) ==
    {r \in rs : r.business_user = businessUser /\ r.reviewer = reviewer}

\* C9: no two stored reviews share (business_user, reviewer) and no stored
\* review has reviewer = business_user.  A Review Create of a customer for a
\* pair without a stored review is accepted and its insert stores the review
\* with 201; a Review Create for a pair that has a stored review is refused and
\* stores nothing; a Review Create with business_user = caller is refused
\* whatever is stored.
C9_OneReviewPerPair ==
    /\ [](\A r1, r2 \in reviews :
            /\ r1.reviewer # r1.business_user
            /\ (r1.business_user = r2.business_user /\ r1.reviewer = r2.reviewer)
                  => r1 = r2)
    /\ [][\A u \in Callers, data \in ReviewCreateInputs :
            (/\ resp'.op \in {"review_create", "review_validated"}
             /\ Has(data, "business_user") /\ data.business_user \in UserIds
             /\ Has(data, "rating") /\ data.rating \in 1..5
             /\ ReviewCreateValidate(u, data)) =>
               /\ reviews' = reviews
               /\ data.business_user = u =>
                    resp'.status \in Refusals /\ inflight' = inflight
               /\ ReviewsOfPair(reviews, data.business_user, u) # {} =>
                    resp'.status \in Refusals /\ inflight' = inflight
               /\ (/\ IsCustomerUser(u)
                   /\ data.business_user # u
                   /\ ReviewsOfPair(reviews, data.business_user, u) = {}) =>
                    /\ resp'.status \notin Refusals
                    /\ BagCardinality(inflight') = BagCardinality(inflight) + 1]_vars
    /\ [][\A q \in BagToSet(inflight) :
            (resp'.op = "review_create" /\ ReviewCreateSave(q)) =>
               IF ReviewsOfPair(reviews, q.business_user, q.reviewer) = {}
               THEN /\ resp'.status = HTTP_201
                    /\ reviews \subseteq reviews'
                    /\ Cardinality(reviews' \ reviews) = 1
                    /\ \A r \in reviews' \ reviews :
                         /\ r.business_user = q.business_user
                         /\ r.reviewer = q.reviewer
                         /\ r.rating = q.rating
               ELSE resp'.status \in Refusals /\ reviews' = reviews]_vars

\* user 2 has a stored review of user 1 and a second Review Create of user 2
\* for user 1 has just been refused by the duplicate check
C9_Witness ==
    /\ resp.op = "review_create" /\ resp.status = HTTP_400
    /\ resp.detail = "already_reviewed"
    /\ ReviewsOfPair(reviews, 1, 2) # {}

\* C10: when two Review Creates for the same (business_user, reviewer) have
\* both passed the "not already present" check and their inserts interleave,
\* at most one review of the pair is stored.
C10_RaceStoresAtMostOne ==
    [][\A q \in BagToSet(inflight) :
          (resp'.op = "review_create" /\ ReviewCreateSave(q)) =>
             /\ Cardinality(ReviewsOfPair(reviews', q.business_user, q.reviewer)) <= 1
             /\ ReviewsOfPair(reviews, q.business_user, q.reviewer) # {} =>
                  reviews' = reviews]_vars

\* two requests of the pair had passed the check; one is stored, the insert of
\* the other has just been refused by the unique constraint
C10_Witness ==
    /\ resp.op = "review_create" /\ resp.status = HTTP_500
    /\ resp.detail = "integrity_error"
    /\ Cardinality(ReviewsOfPair(reviews, 1, 2)) = 1
    /\ inflight = EmptyBag

(***************************************************************************)
(* Outcomes, roles and ownership                                           *)
(***************************************************************************)

\* C11: a Review Create by a customer for a business_user of whom that customer
\* already has a stored review is answered Forbidden (403), not the validation
\* error (400) of a self-review, and the stored reviews are unchanged.
C11_DuplicateReviewForbidden ==
    [][\A u \in Callers, data \in ReviewCreateInputs :
          (/\ resp'.op = "review_create"
           /\ IsCustomerUser(u)
           /\ Has(data, "business_user") /\ Has(data, "rating")
           /\ data.rating \in 1..5
           /\ ReviewsOfPair(reviews, data.business_user, u) # {}
           /\ ReviewCreateValidate(u, data)) =>
             /\ resp'.status = HTTP_403
             /\ reviews' = reviews]_vars

\* the role of a user: the type the user registered with
RegisteredRole(u) == users[u].userprofile_type

\* C12: Offer Create is refused for lack of role (403, nothing stored) exactly
\* when the caller's registered type is not business, and Order Create and
\* Review Create exactly when it is not customer.
C12_RoleGating ==
    [][\A u \in UserIds :
          /\ (resp'.op = "offer_create" /\ OfferCreate(u, FixtureOffer, NoFault)) =>
                /\ resp'.detail = "permission_denied" <=> RegisteredRole(u) # BUSINESS
                /\ resp'.detail = "permission_denied" =>
                      resp'.status = HTTP_403 /\ offers' = offers /\ details' = details
          /\ (resp'.op = "order_create" /\ OrderCreate(u, [offer_detail_id |-> 1])) =>
                /\ resp'.detail = "permission_denied" <=> RegisteredRole(u) # CUSTOMER
                /\ resp'.detail = "permission_denied" =>
                      resp'.status = HTTP_403 /\ orders' = orders
          /\ (/\ resp'.op \in {"review_create", "review_validated"}
              /\ ReviewCreateValidate(u, [business_user |-> 1, rating |-> 3])) =>
                /\ resp'.detail = "permission_denied" <=> RegisteredRole(u) # CUSTOMER
                /\ resp'.detail = "permission_denied" =>
                      /\ resp'.status = HTTP_403
                      /\ reviews' = reviews /\ inflight' = inflight]_vars

\* C13: Offer Update and Offer Delete succeed only for the offer's owner, Review
\* Update and Review Delete only for the review's reviewer, Profile Update only
\* for the profile's own user; the same request from another authenticated
\* caller is answered 403 and leaves the offer with its details, the review,
\* the profile unchanged.
C13_OnlyOwnersMutate ==
    [][\A u \in UserIds :
          /\ \A id \in OfferIds :
                (resp'.op \in {"offer_update", "offer_delete"} /\
                 ((\E data \in OfferPatchInputs : OfferUpdate(u, id, data, TRUE))
                    \/ OfferDelete(u, id))) =>
                   /\ resp'.status \in {HTTP_200, HTTP_204} => OfferById(id).user = u
                   /\ OfferById(id).user # u =>
                        /\ resp'.status = HTTP_403
                        /\ offers' = offers /\ details' = details
          /\ \A id \in ReviewIds :
                (resp'.op \in {"review_update", "review_delete"} /\
                 ((\E data \in ReviewPatchInputs : ReviewUpdate(u, id, data, TRUE))
                    \/ ReviewDelete(u, id))) =>
                   /\ resp'.status \in {HTTP_200, HTTP_204} => ReviewById(id).reviewer = u
                   /\ ReviewById(id).reviewer # u =>
                        resp'.status = HTTP_403 /\ reviews' = reviews
          /\ \A target \in UserIds :
                (resp'.op = "profile_update" /\
                 \E data \in OwnerPatchInputs : ProfileUpdate(u, target, data, TRUE)) =>
                   /\ resp'.status = HTTP_200 => target = u
                   /\ target # u => resp'.status = HTTP_403 /\ users' = users]_vars

\* after the owner changed the basic price, the delete of another
\* authenticated user has been refused and the offer is still stored with its
\* three details
C13_Witness ==
    /\ resp.op = "offer_delete" /\ resp.status = HTTP_403
    /\ \E o \in offers :
          /\ Cardinality(DetailsOf(details, o.id)) = 3
          /\ \E d \in DetailsOf(details, o.id) : d.price = PatchPrice.price
    /\ reviews # {}

(***************************************************************************)
(* Order status and visibility                                             *)
(***************************************************************************)

C15_ExtraKeysRejected ==
    [][\A u \in Callers, id \in OrderIds,
         data \in OrderPatchInputs \cup OrderPutInputs, partial \in BOOLEAN :
          (/\ resp'.op = "order_update"
           /\ DOMAIN data \ {"status"} # {}
           /\ OrderUpdateStatus(u, id, data, partial)) =>
             /\ orders' = orders
             /\ resp'.status # HTTP_200
             /\ (u # Anonymous /\ OrderById(id).business_user = u
                   /\ users[u].profile_type = BUSINESS) => resp'.status = HTTP_400]_vars

\* a payload with status and price has been refused and the order is still in
\* progress at its price
C15_Witness ==
    /\ resp.op = "order_update" /\ resp.status = HTTP_400
    /\ resp.detail = "unrecognized_fields"
    /\ \E o \in orders : o.status = IN_PROGRESS /\ o.price = ItemBasic.price

\* the orders in which user u is customer_user or business_user
Involvements(u) == {o \in orders : o.customer_user = u \/ o.business_user = u}

\* C16: Order List answers every authenticated caller, administrators
\* included, with exactly the orders in which the caller is customer_user or
\* business_user; Order Retrieve by a caller who is not an administrator, of a
\* stored order in which the caller does not take part, ends with 404 as for
\* an unknown id.
C16_ListAndRetrieveOwnOrders ==
    /\ [][\A u \in UserIds :
            (resp'.op = "order_list" /\ OrderList(u)) =>
               resp'.status = HTTP_200 /\ resp'.body = Involvements(u)]_vars
    /\ [][\A u \in UserIds, id \in OrderIdInputs :
            (/\ resp'.op = "order_retrieve"
             /\ ~users[u].is_staff
             /\ id \notin {o.id : o \in Involvements(u)}
             /\ OrderRetrieve(u, id)) =>
               resp'.status = HTTP_404 /\ resp'.detail = "not_found"]_vars

\* the order of customer 2 with business user 1 is stored and a list has been
\* answered empty: the list of the administrator, user 3
C16_Witness ==
    /\ resp.op = "order_list" /\ resp.status = HTTP_200
    /\ resp.body = {}
    /\ \E o \in orders : o.customer_user = 2 /\ o.business_user = 1

\* C17 as stated: an administrator who is neither customer_user nor
\* business_user of a stored order gets 404 when retrieving it.
C17_AdminRetrieveNotFound ==
    [][\A u \in UserIds, id \in OrderIds :
          (/\ resp'.op = "order_retrieve"
           /\ users[u].is_staff
           /\ OrderById(id) \notin Involvements(u)
           /\ OrderRetrieve(u, id)) =>
             resp'.status = HTTP_404]_vars

\* C17, amended: Retrieve and Delete are the Order operations in which an
\* administrator reaches orders they are not involved in: for a stored order
\* in which the administrator does not take part, Retrieve answers 200 with the
\* order, Delete removes it with 204, the administrator's List leaves it out
\* and UpdateStatus is refused with 403 and changes nothing.
C17_AdminReachesByRetrieveAndDelete ==
    [][\A u \in UserIds, id \in OrderIds :
          (users[u].is_staff /\ OrderById(id) \notin Involvements(u)) =>
             /\ (resp'.op = "order_retrieve" /\ OrderRetrieve(u, id)) =>
                   resp'.status = HTTP_200 /\ resp'.body = OrderById(id)
             /\ (resp'.op = "order_delete" /\ OrderDelete(u, id)) =>
                   resp'.status = HTTP_204 /\ orders' = orders \ {OrderById(id)}
             /\ (resp'.op = "order_list" /\ OrderList(u)) =>
                   OrderById(id) \notin resp'.body
             /\ (resp'.op = "order_update" /\
                 OrderUpdateStatus(u, id, [status |-> COMPLETED], TRUE)) =>
                   resp'.status = HTTP_403 /\ orders' = orders]_vars

\* the administrator, user 3, has retrieved the order of customer 2 with
\* business user 1
C17_Witness ==
    /\ resp.op = "order_retrieve" /\ resp.status = HTTP_200
    /\ resp.detail = "all_orders"
    /\ resp.body.customer_user = 2 /\ resp.body.business_user = 1
    /\ resp.body \in orders

\* C18: Order Delete removes an order only for an administrator, who can
\* delete any stored order whether or not they take part in it; every
\* authenticated caller who is not an administrator, the order's customer_user
\* and business_user included, gets 403 and the orders stay as they were.
C18_DeleteOnlyByAdmin ==
    [][\A u \in UserIds, id \in OrderIdInputs :
          (resp'.op = "order_delete" /\ OrderDelete(u, id)) =>
             /\ (orders' # orders => users[u].is_staff)
             /\ (users[u].is_staff /\ id \in OrderIds) =>
                   /\ resp'.status = HTTP_204
                   /\ orders' = orders \ {OrderById(id)}
             /\ ~users[u].is_staff =>
                   resp'.status = HTTP_403 /\ orders' = orders]_vars

\* a caller who is not an administrator has been refused the deletion of the
\* stored order of business user 1
C18_Witness ==
    /\ resp.op = "order_delete" /\ resp.status = HTTP_403
    /\ \E o \in orders : o.business_user = 1 /\ ~users[1].is_staff

(***************************************************************************)
(* Offer Update: frame and failure.                                        *)
(***************************************************************************)
\* the fields of the items of a details payload that name offer_type t
PatchedFields(data, t) ==
    IF ~Has(data, "details") THEN {}
    ELSE UNION {DOMAIN data.details[i] :
                  i \in {j \in 1..Len(data.details) :
                           Has(data.details[j], "offer_type")
                           /\ data.details[j].offer_type = t}}

\* what a successful update of offer id with payload data may have changed
UpdateFrame(id, data) ==
    /\ {d.id : d \in details'} = {d.id : d \in details}
    /\ \A d \in details :
          LET n == CHOOSE x \in details' : x.id = d.id IN
          \A f \in DOMAIN d :
             n[f] # d[f] => d.offer = id /\ f \in PatchedFields(data, d.offer_type)
    /\ {o.id : o \in offers'} = OfferIds
    /\ \A o \in offers :
          LET n == CHOOSE x \in offers' : x.id = o.id IN
          /\ n.user = o.user
          /\ o.id # id => n = o
          /\ n.title # o.title => Has(data, "title")
          /\ n.description # o.description => Has(data, "description")

\* C19: a successful Offer Update (PATCH or PUT) changes, on a detail of the
\* offer, only fields present in an item of the payload that names the
\* detail's offer_type; every other field, every other detail, the owner and
\* all other offers stay as they were, and title and description change only
\* when the payload carries them.
C19_UpdateChangesOnlyPresentFields ==
    [][\A u \in UserIds, id \in OfferIds, partial \in BOOLEAN :
         \A data \in (IF partial THEN UpdatePatchInputs ELSE UpdatePutInputs) :
            (/\ resp'.op = "offer_update" /\ resp'.status = HTTP_200
             /\ OfferUpdate(u, id, data, partial)) => UpdateFrame(id, data)]_vars

\* C20: an Offer Update that ends with a validation error raised while its
\* details are processed (an item without offer_type, or an item naming an
\* offer_type the offer does not have) leaves the offers and all details as
\* they were before the request.
C20_FailedUpdateChangesNothing ==
    [][\A u \in UserIds, id \in OfferIds, partial \in BOOLEAN :
         \A data \in (IF partial THEN UpdatePatchInputs ELSE UpdatePutInputs) :
            (/\ resp'.op = "offer_update" /\ resp'.status = HTTP_400
             /\ resp'.detail \in {"offer_type_required", "offer_type_not_found"}
             /\ OfferUpdate(u, id, data, partial)) =>
               offers' = offers /\ details' = details]_vars

(***************************************************************************)
(* Outcomes, frames and invariants of the ledgers                          *)
(***************************************************************************)
DefinedOutcomes ==
    {HTTP_200, HTTP_201, HTTP_204, HTTP_400, HTTP_401, HTTP_403, HTTP_404}

\* C21: every request on the Review Ledger ends with a defined outcome
\* (success, 401, 403, 404 or 400), never with an unhandled internal
\* exception; a Review Create whose check passed and whose insert violates the
\* uniqueness constraint is answered with a client error.
C21_NoUnhandledException ==
    /\ resp.status \in DefinedOutcomes
    /\ resp.detail # "integrity_error"

\* C22: Review Update by the reviewer changes only rating and description:
\* business_user and reviewer carried by the payload are ignored and the
\* request still succeeds; a rating outside 1..5 is rejected with 400 and
\* leaves the reviews unchanged; every stored rating is within 1..5.
C22_UpdateChangesRatingAndDescription ==
    /\ [](\A r \in reviews : r.rating \in 1..5)
    /\ [][\A u \in UserIds, id \in ReviewIds, partial \in BOOLEAN :
            \A data \in (IF partial THEN EditPatchInputs ELSE EditPutInputs) :
               (resp'.op = "review_update" /\ ReviewUpdate(u, id, data, partial)) =>
                  LET old == ReviewById(id)
                      new == CHOOSE r \in reviews' : r.id = id
                  IN /\ {r.id : r \in reviews'} = ReviewIds
                     /\ reviews' \ {new} = reviews \ {old}
                     /\ new.business_user = old.business_user
                     /\ new.reviewer = old.reviewer
                     /\ (Has(data, "rating") /\ data.rating \notin 1..5) =>
                           /\ reviews' = reviews
                           /\ u = old.reviewer => resp'.status = HTTP_400
                     /\ (u = old.reviewer /\ Has(data, "rating")
                         /\ data.rating \in 1..5) =>
                           /\ resp'.status = HTTP_200
                           /\ new.rating = data.rating
                           /\ new.description = Get(data, "description", old.description)]_vars

\* the patch with business_user 3 and rating 1 has been applied to a review of
\* business user 1: the rating is 1 and the business user is still 1
C22_Witness ==
    /\ resp.op = "review_update" /\ resp.status = HTTP_200
    /\ \E r \in reviews : r.rating = 1 /\ r.business_user = 1 /\ resp.body = r

\* C23: a Profile Update never changes the type of a profile: a type carried
\* by the payload is ignored, so every user's Profile type after the request
\* is the one before it.
C23_ProfileUpdateKeepsRole ==
    [][resp'.op = "profile_update" =>
          \A u \in UserIds : users'[u].profile_type = users[u].profile_type]_vars

(***************************************************************************)
(* Platform Stats                                                          *)
(***************************************************************************)

\* C25: Platform Stats Summary answers callers without authentication with
\* 200 and changes nothing stored; review_count is the number of stored
\* reviews, offer_count the number of stored offers, and average_rating is
\* null without reviews and otherwise the mean of the stored ratings rounded
\* to one decimal: within half a tenth of the mean, 4.5 (45 tenths) for the
\* ratings 5 and 4 and 4.7 for the ratings 5, 5 and 4.
C25_StatsSummary ==
    [][(resp'.op = "base_info" /\ BaseInfo) =>
          /\ resp'.status = HTTP_200
          /\ UNCHANGED <<users, offers, details, orders, reviews>>
          /\ resp'.body.review_count = Cardinality(reviews)
          /\ resp'.body.offer_count = Cardinality(offers)
          /\ IF reviews = {}
             THEN resp'.body.average_rating = NullAggregate
             ELSE LET n == Cardinality(reviews)
                      total == SumOfRatings(reviews)
                      diff == resp'.body.average_rating * n - 10 * total
                  IN /\ 2 * diff <= n /\ 2 * diff >= -n
                     /\ ({r.rating : r \in reviews} = {4, 5} /\ n = 2) =>
                           resp'.body.average_rating = 45
                     /\ (n = 3 /\ total = 14) => resp'.body.average_rating = 47]_vars

\* the summary has been answered for the stored ratings 5, 5 and 4 while an
\* offer is stored
C25_Witness ==
    /\ resp.op = "base_info"
    /\ Cardinality(reviews) = 3 /\ SumOfRatings(reviews) = 14
    /\ resp.body.average_rating = 47 /\ resp.body.review_count = 3
    /\ resp.body.offer_count = 1 /\ Cardinality(offers) = 1

\* C26: the business_profile_count of Platform Stats Summary is the number of
\* Profile rows whose type is business, the number of profiles the business
\* profile list returns.
C26_BusinessCountMatchesList ==
    [][(resp'.op = "base_info" /\ BaseInfo) =>
          resp'.body.business_profile_count = Cardinality(BusinessProfiles)]_vars

(***************************************************************************)
(* Offer List filters                                                      *)
(***************************************************************************)
\* the ids of the offers a page holds
PageIds(page) == {page[i].id : i \in DOMAIN page}

\* C27: Offer List with min_price=v returns exactly the offers whose cheapest
\* detail costs at least v, with max_delivery_time=v exactly the offers whose
\* fastest detail takes at most v days, with creator_id=u exactly the offers
\* of user u; with ordering=min_price the page is in non-decreasing min_price
\* order and with ordering=-min_price in non-increasing order.
C27_FiltersAndOrdering ==
    [][\A q \in FilterInputs :
          (resp'.op = "offer_list" /\ OfferListFiltered(q)) =>
             LET page == resp'.body IN
             /\ Len(page) = Cardinality(PageIds(page))
             /\ PageIds(page) =
                  {o.id : o \in {x \in offers :
                     /\ Has(q, "min_price") =>
                           \A d \in DetailsOf(details, x.id) : d.price >= q.min_price
                     /\ Has(q, "max_delivery_time") =>
                           \E d \in DetailsOf(details, x.id) :
                              d.delivery_time_in_days <= q.max_delivery_time
                     /\ Has(q, "creator_id") => x.user = q.creator_id}}
             /\ \A i \in DOMAIN page :
                   /\ page[i].min_price = MinPrice(details, page[i].id)
                   /\ page[i].min_delivery_time = MinDeliveryTime(details, page[i].id)
             /\ (Has(q, "ordering") /\ q.ordering = "min_price") =>
                   \A i, j \in DOMAIN page : i < j => page[i].min_price <= page[j].min_price
             /\ (Has(q, "ordering") /\ q.ordering = "-min_price") =>
                   \A i, j \in DOMAIN page : i < j => page[i].min_price >= page[j].min_price]_vars

\* the list with min_price=20 has returned offer 1, whose min_price is exactly
\* 20, and not offer 2
C27_Witness ==
    /\ resp.op = "offer_list" /\ resp.detail = "filtered"
    /\ Len(resp.body) = 1 /\ resp.body[1].id = 1 /\ resp.body[1].min_price = 20
    /\ MinPrice(details, 2) = 10

(***************************************************************************)
(* Roles, order status and email addresses                                 *)
(***************************************************************************)

\* C28: no user passes both role gates: nobody is at the same time allowed to
\* create offers (the business gate) and to create orders and reviews (the
\* customer gate).
C28_AtMostOneGate ==
    \A u \in UserIds : ~(IsBusinessUser(u) /\ IsCustomerUser(u))

\* C29: from every status the business owner of an order moves the order to
\* every status with UpdateStatus, back to in_progress included, and no other
\* operation changes the status of an order that stays stored.
C29_NoTransitionRestrictions ==
    /\ [][\A o \in orders, st \in OrderStatuses :
            (/\ resp'.op = "order_update"
              /\ IsBusinessUser(o.business_user)
              /\ OrderUpdateStatus(o.business_user, o.id, [status |-> st], TRUE)) =>
                /\ resp'.status = HTTP_200
                /\ orders' = (orders \ {o}) \cup {[o EXCEPT !.status = st]}]_vars
    /\ [][resp'.op # "order_update" =>
            \A o \in orders, n \in orders' : n.id = o.id => n.status = o.status]_vars

\* an order has just been set back to in_progress
C29_Witness ==
    /\ resp.op = "order_update" /\ resp.status = HTTP_200
    /\ resp.body.status = IN_PROGRESS /\ resp.body \in orders

\* C30: no two registered users have the same email address: Profile Update
\* keeps the uniqueness that registration checks.
C30_EmailsUnique ==
    \A u, v \in UserIds :
       (u # v /\ Registered(u) /\ Registered(v)) => users[u].email # users[v].email

====
